---- MODULE Spec2Model ----
(***************************************************************************)
(* A model of PingRank.py: a poller that walks a fixed list of URLs, GETs  *)
(* each one, prints the decoded JSON body of a 200 response or a failure   *)
(* message for any other status, and sleeps 240 seconds after each pass.   *)
(***************************************************************************)
EXTENDS Integers, Sequences, FiniteSets, TLC

(***************************************************************************)
(* Bounds of the model.                                                    *)
(***************************************************************************)
\* The counters of completed cycles, sleeps and requests stop counting here.
MaxCount == 2
\* Seconds by which one step of the clock advances a running sleep.
TickSeconds == 120

(***************************************************************************)
(* Program constants.                                                      *)
(***************************************************************************)
\* PingRank.py:4-7, the target list.
URLS ==
    << "https://f0rest-rank-api.glitch.me/getRank/olofmeister",
       "https://f0rest-rank-api.glitch.me/getRank/f0rest" >>
\* PingRank.py:12, the one status code taken as success.
HTTP_OK == 200
\* PingRank.py:17, the argument of time.sleep.
SLEEP_SECONDS == 240

(***************************************************************************)
(* Response bodies are sequences of one-character strings.  The decoder    *)
(* below is what response.json() does on the subset of JSON the model      *)
(* uses: objects, strings without escapes, integers, true, false, null,    *)
(* and spaces as white space.                                              *)
(***************************************************************************)
DigitChars == << "0", "1", "2", "3", "4", "5", "6", "7", "8", "9" >>

IsDigit(c) == \E k \in 1..Len(DigitChars) : DigitChars[k] = c

DigitVal(c) == (CHOOSE k \in 1..Len(DigitChars) : DigitChars[k] = c) - 1

JNull == [t |-> "null", v |-> 0]
JBool(b) == [t |-> "bool", v |-> b]
JInt(n) == [t |-> "int", v |-> n]
JStr(s) == [t |-> "str", v |-> s]
JDict(f) == [t |-> "dict", v |-> f]

\* A decoding step: ok, the value decoded, and the index after it.
Parsed(val, pos) == [ok |-> TRUE, val |-> val, pos |-> pos]
ParseError == [ok |-> FALSE, val |-> JNull, pos |-> 0]

CharAt(s, p) == IF p \in 1..Len(s) THEN s[p] ELSE "EOF"

RECURSIVE SkipWs(_, _)
SkipWs(s, p) == IF CharAt(s, p) = " " THEN SkipWs(s, p + 1) ELSE p

\* Does the sequence lit occur in s at index p?
HasLiteral(s, p, lit) ==
    /\ p + Len(lit) - 1 <= Len(s)
    /\ \A k \in 1..Len(lit) : s[p + k - 1] = lit[k]

RECURSIVE ScanDigits(_, _, _)
ScanDigits(s, p, acc) ==
    IF IsDigit(CharAt(s, p))
    THEN ScanDigits(s, p + 1, 10 * acc + DigitVal(s[p]))
    ELSE Parsed(JInt(acc), p)

\* The one element of a set of one element; the decoder uses it to name a
\* result it has computed and then reads more than once.
The(S) == CHOOSE r \in S : TRUE

\* 0|[1-9][0-9]*: a leading 0 ends the number.
ParseMagnitude(s, q) ==
    IF CharAt(s, q) = "0" THEN Parsed(JInt(0), q + 1)
    ELSE IF IsDigit(CharAt(s, q)) THEN ScanDigits(s, q, 0)
    ELSE ParseError

\* An integer, with or without a minus sign.
ParseNumber(s, p) ==
    IF CharAt(s, p) = "-"
    THEN The({ IF mag.ok THEN Parsed(JInt(0 - mag.val.v), mag.pos) ELSE mag :
               mag \in { ParseMagnitude(s, p + 1) } })
    ELSE ParseMagnitude(s, p)

\* p is the index after the opening quote; acc the characters read so far.
RECURSIVE ScanString(_, _, _)
ScanString(s, p, acc) ==
    IF p > Len(s) THEN ParseError
    ELSE IF s[p] = "\"" THEN Parsed(JStr(acc), p + 1)
    ELSE ScanString(s, p + 1, acc \o s[p])

RECURSIVE ParseValue(_, _)
RECURSIVE ParseMembers(_, _, _)

\* After the value val of key k: a closing brace, or a comma and more members.
\* A key read twice keeps its last value.
MemberAfterValue(s, k, val, acc) ==
    IF ~val.ok THEN ParseError
    ELSE The({ IF CharAt(s, e) = "}"
               THEN Parsed(JDict((k :> val.val) @@ acc), e + 1)
               ELSE IF CharAt(s, e) = ","
               THEN The({ ParseMembers(s, q, (k :> val.val) @@ acc) :
                          q \in { SkipWs(s, e + 1) } })
               ELSE ParseError :
               e \in { SkipWs(s, val.pos) } })

\* After the key: a colon, then the value.
MemberAfterKey(s, key, acc) ==
    IF ~key.ok THEN ParseError
    ELSE The({ IF CharAt(s, c) # ":" THEN ParseError
               ELSE The({ MemberAfterValue(s, key.val.v, val, acc) :
                          val \in { ParseValue(s, SkipWs(s, c + 1)) } }) :
               c \in { SkipWs(s, key.pos) } })

\* p is the index of the opening quote of a key; acc the members read so far.
ParseMembers(s, p, acc) ==
    IF CharAt(s, p) # "\"" THEN ParseError
    ELSE The({ MemberAfterKey(s, key, acc) :
               key \in { ScanString(s, p + 1, "") } })

ParseObject(s, p) ==
    The({ IF CharAt(s, q) = "}" THEN Parsed(JDict(<<>>), q + 1)
          ELSE ParseMembers(s, q, <<>>) :
          q \in { SkipWs(s, p + 1) } })

ParseValue(s, p) ==
    The({ IF c = "{" THEN ParseObject(s, p)
          ELSE IF c = "\"" THEN ScanString(s, p + 1, "")
          ELSE IF c = "-" \/ IsDigit(c) THEN ParseNumber(s, p)
          ELSE IF HasLiteral(s, p, << "n", "u", "l", "l" >>)
          THEN Parsed(JNull, p + 4)
          ELSE IF HasLiteral(s, p, << "t", "r", "u", "e" >>)
          THEN Parsed(JBool(TRUE), p + 4)
          ELSE IF HasLiteral(s, p, << "f", "a", "l", "s", "e" >>)
          THEN Parsed(JBool(FALSE), p + 5)
          ELSE ParseError :
          c \in { CharAt(s, p) } })

\* response.json(): one value, white space around it, nothing after it.
JsonDecode(body) ==
    The({ IF r.ok /\ SkipWs(body, r.pos) = Len(body) + 1 THEN r ELSE ParseError :
          r \in { ParseValue(body, SkipWs(body, 1)) } })

(***************************************************************************)
(* The server side: what a request can be answered with.                   *)
(***************************************************************************)
\* {"rank": 5}
BodyRank5 == << "{", "\"", "r", "a", "n", "k", "\"", ":", " ", "5", "}" >>
\* {"x":1}
BodyX1 == << "{", "\"", "x", "\"", ":", "1", "}" >>
\* <html>
BodyHtml == << "<", "h", "t", "m", "l", ">" >>
\* {"x":1   (cut short)
BodyTruncated == << "{", "\"", "x", "\"", ":", "1" >>

Bodies == { BodyRank5, BodyX1, BodyHtml, BodyTruncated }

StatusCodes == { 200, 201, 500 }

Responses == [status : StatusCodes, body : Bodies]

NoResponse == [status |-> 0, body |-> << >>]

(***************************************************************************)
(* What the program does that can be observed, in order.                   *)
(***************************************************************************)
GetEvent(u) == [op |-> "get", url |-> u]
ResponseEvent(r) == [op |-> "response", status |-> r.status, body |-> r.body]
PrintEvent(line, arg) == [op |-> "print", line |-> line, arg |-> arg]
SleepEvent(secs) == [op |-> "sleep", secs |-> secs]

\* f"Failed to retrieve data from {url}. Status code: {response.status_code}"
FailureMessage(u, code) ==
    "Failed to retrieve data from " \o u \o ". Status code: " \o ToString(code)

Bump(n) == IF n < MaxCount THEN n + 1 ELSE n

VARIABLES
    urls,       \* the list urls
    pc,         \* where the program is
    i,          \* index in urls of the loop variable url
    response,   \* the variable response
    inflight,   \* GET requests sent and not yet answered
    log,        \* events of the current cycle
    prevLog,    \* events of one earlier cycle, any of them
    sleepFor,   \* argument of the running time.sleep, 0 when none runs
    elapsed,    \* seconds the running time.sleep has lasted
    cycles,     \* passes over urls completed
    sleeps,     \* sleeps completed
    reqs        \* reqs[k]: requests issued to urls[k]

vars == << urls, pc, i, response, inflight, log, prevLog, sleepFor, elapsed,
           cycles, sleeps, reqs >>

\* The loop walking the list from its end.
urlReversed == urls[Len(urls) + 1 - i]

url == urls[i]

\* The sleep placed at the top of the loop body: the program sleeps first.
InitSleepFirst ==
    /\ urls = URLS
    /\ pc = "sleep"
    /\ i = 1
    /\ response = NoResponse
    /\ inflight = 0
    /\ log = << >>
    /\ prevLog = << >>
    /\ sleepFor = 0
    /\ elapsed = 0
    /\ cycles = 0
    /\ sleeps = 0
    /\ reqs = [k \in 1..Len(URLS) |-> 0]

Init ==
    /\ urls = URLS
    /\ pc = "get"
    /\ i = 1
    /\ response = NoResponse
    /\ inflight = 0
    /\ log = << >>
    /\ prevLog = << >>
    /\ sleepFor = 0
    /\ elapsed = 0
    /\ cycles = 0
    /\ sleeps = 0
    /\ reqs = [k \in 1..Len(URLS) |-> 0]

\* A request sent without waiting for its answer before the next is sent.
IssueRequestNoWait ==
    /\ pc = "get"
    /\ inflight' = inflight + 1
    /\ log' = Append(log, GetEvent(url))
    /\ reqs' = [reqs EXCEPT ![i] = Bump(@)]
    /\ IF i < Len(urls)
       THEN pc' = "get" /\ i' = i + 1
       ELSE pc' = "wait" /\ i' = i
    /\ UNCHANGED << urls, response, prevLog, sleepFor, elapsed, cycles,
                    sleeps >>

\* Line 11: requests.get(url) sends the request and blocks.
IssueRequest ==
    /\ pc = "get"
    /\ pc' = "wait"
    /\ inflight' = inflight + 1
    /\ log' = Append(log, GetEvent(url))
    /\ reqs' = [reqs EXCEPT ![i] = Bump(@)]
    /\ UNCHANGED << urls, i, response, prevLog, sleepFor, elapsed, cycles,
                    sleeps >>

\* Line 11: requests.get returns a response, of any status.
ReceiveResponse ==
    /\ pc = "wait"
    /\ \E r \in Responses :
         /\ response' = r
         /\ log' = Append(log, ResponseEvent(r))
    /\ inflight' = inflight - 1
    /\ pc' = "check"
    /\ UNCHANGED << urls, i, prevLog, sleepFor, elapsed, cycles, sleeps, reqs >>

\* Line 11: requests.get raises (no route, refused, TLS, ...); nothing catches.
TransportError ==
    /\ pc = "wait"
    /\ inflight' = inflight - 1
    /\ pc' = "aborted"
    /\ UNCHANGED << urls, i, response, log, prevLog, sleepFor, elapsed, cycles,
                    sleeps, reqs >>

\* Line 10: the for loop takes the next url, or ends and line 17 is next.
NextUrl ==
    IF i < Len(urls)
    THEN /\ i' = i + 1
         /\ pc' = "get"
         /\ cycles' = cycles
    ELSE /\ i' = i
         /\ pc' = "sleep"
         /\ cycles' = Bump(cycles)

\* print(response.text): the body as received, not decoded.
PrintJsonRaw ==
    /\ pc = "check"
    /\ response.status = HTTP_OK
    /\ JsonDecode(response.body).ok
    /\ log' = Append(log, PrintEvent(13, [t |-> "text", v |-> response.body]))
    /\ NextUrl
    /\ UNCHANGED << urls, response, inflight, prevLog, sleepFor, elapsed,
                    sleeps, reqs >>

\* Lines 12-13: status 200 and a body that decodes.
PrintJson ==
    /\ pc = "check"
    /\ response.status = HTTP_OK
    /\ JsonDecode(response.body).ok
    /\ log' = Append(log, PrintEvent(13, JsonDecode(response.body).val))
    /\ NextUrl
    /\ UNCHANGED << urls, response, inflight, prevLog, sleepFor, elapsed,
                    sleeps, reqs >>

\* The decode error caught: a message is printed and the loop goes on.
JsonDecodeErrorCaught ==
    /\ pc = "check"
    /\ response.status = HTTP_OK
    /\ ~JsonDecode(response.body).ok
    /\ log' = Append(log, PrintEvent(13, JStr("Invalid JSON")))
    /\ NextUrl
    /\ UNCHANGED << urls, response, inflight, prevLog, sleepFor, elapsed,
                    sleeps, reqs >>

\* Lines 12-13: status 200 and response.json() raises; nothing catches.
JsonDecodeError ==
    /\ pc = "check"
    /\ response.status = HTTP_OK
    /\ ~JsonDecode(response.body).ok
    /\ pc' = "aborted"
    /\ UNCHANGED << urls, i, response, inflight, log, prevLog, sleepFor,
                    elapsed, cycles, sleeps, reqs >>

\* The same URL requested again after a failure.
PrintFailureRetry ==
    /\ pc = "check"
    /\ response.status # HTTP_OK
    /\ log' = Append(log,
                PrintEvent(15, JStr(FailureMessage(url, response.status))))
    /\ pc' = "get"
    /\ UNCHANGED << urls, i, response, inflight, prevLog, sleepFor, elapsed,
                    cycles, sleeps, reqs >>

\* The body decoded before the status is looked at.
PrintFailureParsing ==
    /\ pc = "check"
    /\ response.status # HTTP_OK
    /\ IF JsonDecode(response.body).ok
       THEN /\ log' = Append(log,
                   PrintEvent(15, JStr(FailureMessage(url, response.status))))
            /\ NextUrl
       ELSE /\ pc' = "aborted"
            /\ UNCHANGED << i, log, cycles >>
    /\ UNCHANGED << urls, response, inflight, prevLog, sleepFor, elapsed,
                    sleeps, reqs >>

\* A break after the failure message: the rest of the list is skipped.
PrintFailureBreak ==
    /\ pc = "check"
    /\ response.status # HTTP_OK
    /\ log' = Append(log,
                PrintEvent(15, JStr(FailureMessage(url, response.status))))
    /\ pc' = "sleep"
    /\ cycles' = Bump(cycles)
    /\ UNCHANGED << urls, i, response, inflight, prevLog, sleepFor, elapsed,
                    sleeps, reqs >>

\* Lines 14-15: any other status.
PrintFailure ==
    /\ pc = "check"
    /\ response.status # HTTP_OK
    /\ log' = Append(log,
                PrintEvent(15, JStr(FailureMessage(url, response.status))))
    /\ NextUrl
    /\ UNCHANGED << urls, response, inflight, prevLog, sleepFor, elapsed,
                    sleeps, reqs >>

\* A sleep twice as long after a cycle in which a request failed.
StartSleepLongerOnFailure ==
    /\ pc = "sleep"
    /\ pc' = "sleeping"
    /\ elapsed' = 0
    /\ \E secs \in { IF \E p \in 1..Len(log) :
                          log[p].op = "print" /\ log[p].line = 15
                     THEN 2 * SLEEP_SECONDS ELSE SLEEP_SECONDS } :
          /\ sleepFor' = secs
          /\ log' = Append(log, SleepEvent(secs))
    /\ UNCHANGED << urls, i, response, inflight, prevLog, cycles, sleeps, reqs >>

\* A sleep that grows with the number of sleeps before it.
StartSleepBackoff ==
    /\ pc = "sleep"
    /\ pc' = "sleeping"
    /\ sleepFor' = SLEEP_SECONDS * (sleeps + 1)
    /\ elapsed' = 0
    /\ log' = Append(log, SleepEvent(SLEEP_SECONDS * (sleeps + 1)))
    /\ UNCHANGED << urls, i, response, inflight, prevLog, cycles, sleeps, reqs >>

\* Line 17: time.sleep(240) is called.
StartSleep ==
    /\ pc = "sleep"
    /\ pc' = "sleeping"
    /\ sleepFor' = SLEEP_SECONDS
    /\ elapsed' = 0
    /\ log' = Append(log, SleepEvent(SLEEP_SECONDS))
    /\ UNCHANGED << urls, i, response, inflight, prevLog, cycles, sleeps, reqs >>

\* Time passes while time.sleep blocks.
Tick ==
    /\ pc = "sleeping"
    /\ elapsed < sleepFor
    /\ elapsed' = elapsed + TickSeconds
    /\ UNCHANGED << urls, pc, i, response, inflight, log, prevLog, sleepFor,
                    cycles, sleeps, reqs >>

\* The loop resumed where it stopped instead of at the head of the list.
WakeUpNoRestart ==
    /\ pc = "sleeping"
    /\ elapsed >= sleepFor
    /\ pc' = "get"
    /\ i' = i
    /\ sleepFor' = 0
    /\ elapsed' = 0
    /\ prevLog' \in { prevLog, log }
    /\ log' = << >>
    /\ sleeps' = Bump(sleeps)
    /\ UNCHANGED << urls, response, inflight, cycles, reqs >>

\* No enclosing while True: the program ends after the first sleep.
WakeUpExit ==
    /\ pc = "sleeping"
    /\ elapsed >= sleepFor
    /\ pc' = "done"
    /\ sleepFor' = 0
    /\ elapsed' = 0
    /\ sleeps' = Bump(sleeps)
    /\ UNCHANGED << urls, i, response, inflight, log, prevLog, cycles, reqs >>

\* A sleep that returns at once.
WakeUpEarly ==
    /\ pc = "sleeping"
    /\ pc' = "get"
    /\ i' = 1
    /\ sleepFor' = 0
    /\ elapsed' = 0
    /\ prevLog' \in { prevLog, log }
    /\ log' = << >>
    /\ sleeps' = Bump(sleeps)
    /\ UNCHANGED << urls, response, inflight, cycles, reqs >>

\* Line 17 returns; line 9 loops; line 10 starts over at the first url.
WakeUp ==
    /\ pc = "sleeping"
    /\ elapsed >= sleepFor
    /\ pc' = "get"
    /\ i' = 1
    /\ sleepFor' = 0
    /\ elapsed' = 0
    /\ prevLog' \in { prevLog, log }
    /\ log' = << >>
    /\ sleeps' = Bump(sleeps)
    /\ UNCHANGED << urls, response, inflight, cycles, reqs >>

Next ==
    \/ IssueRequest
    \/ ReceiveResponse
    \/ TransportError
    \/ PrintJson
    \/ JsonDecodeError
    \/ PrintFailure
    \/ StartSleep
    \/ Tick
    \/ WakeUp

Spec == Init /\ [][Next]_vars

\* The interpreter keeps running the program; for the two calls that block,
\* requests.get and time.sleep, this assumes that each of them ends.
LiveSpec == Spec /\ WF_vars(Next)

(***************************************************************************)
(* Reading a log.                                                          *)
(***************************************************************************)
IsGet(e) == e.op = "get"
IsResponse(e) == e.op = "response"
IsPrint(e) == e.op = "print"
IsSleep(e) == e.op = "sleep"

GetsBefore(l, p) == Len(SelectSeq(SubSeq(l, 1, p - 1), IsGet))
PrintsBefore(l, p) == Len(SelectSeq(SubSeq(l, 1, p - 1), IsPrint))

\* The decimal text of the status codes the servers of the model answer with.
StatusText(code) ==
    CASE code = 200 -> "200"
      [] code = 201 -> "201"
      [] code = 500 -> "500"

\* The line the program is to print for a status other than 200.
ExpectedFailure(u, code) ==
    JStr("Failed to retrieve data from " \o u \o ". Status code: "
         \o StatusText(code))

\* The bodies of the model that are JSON documents, and the value each denotes.
JsonDocs ==
    { [text |-> BodyRank5, value |-> JDict([rank |-> JInt(5)])],
      [text |-> BodyX1, value |-> JDict([x |-> JInt(1)])] }

(***************************************************************************)
(* C1: within a cycle the GETs go out in the order of the URL list, and    *)
(* the output for URL k is in the log before the GET for URL k+1, so the   *)
(* outputs are in the order of the list too.                               *)
(***************************************************************************)
C1_RequestsAndOutputsInListOrder ==
    LET gets == SelectSeq(log, IsGet)
    IN  /\ Len(gets) <= Len(URLS)
        /\ \A k \in 1..Len(gets) : gets[k].url = URLS[k]
        /\ \A p \in 1..Len(log) :
             /\ IsGet(log[p]) => PrintsBefore(log, p) = GetsBefore(log, p)
             /\ IsPrint(log[p]) => GetsBefore(log, p) = PrintsBefore(log, p) + 1
             /\ (IsPrint(log[p]) /\ log[p].line = 15) =>
                   \E c \in StatusCodes :
                      log[p].arg = ExpectedFailure(URLS[GetsBefore(log, p)], c)

C1_Witness ==
    /\ pc = "sleep"
    /\ Len(SelectSeq(log, IsPrint)) = 2
    /\ log[3].line = 13
    /\ log[6].line = 15

Last(l) == l[Len(l)]

(***************************************************************************)
(* C2: after the last URL of a cycle the next thing the program does is    *)
(* one time.sleep(240); while it sleeps nothing is requested or printed;   *)
(* and the first request of the next cycle can only follow the end of that *)
(* sleep, 240 seconds or more after it began.                              *)
(***************************************************************************)
C2_OneFullSleepBetweenCycles ==
    [][ /\ (pc' = "sleep") =>
              (pc = "check" /\ i = Len(URLS) /\ IsPrint(Last(log')))
        /\ (pc = "sleep") =>
              /\ pc' = "sleeping"
              /\ log' = Append(log, SleepEvent(240))
              /\ sleepFor' = 240
              /\ elapsed' = 0
        /\ (pc = "sleeping" /\ pc' = "sleeping") =>
              (log' = log /\ inflight' = 0 /\ sleepFor' = 240)
        /\ (pc = "sleeping" /\ pc' # "sleeping") =>
              /\ elapsed >= 240
              /\ SelectSeq(log, IsSleep) = << SleepEvent(240) >>
              /\ IsSleep(Last(log))
              /\ IsPrint(log[Len(log) - 1])
              /\ pc' = "get" /\ i' = 1 /\ log' = << >>
        /\ (pc' = "get" /\ i' = 1) => pc = "sleeping"
      ]_vars

C2_Witness == pc = "wait" /\ i = 1 /\ sleeps >= 1 /\ log = << GetEvent(URLS[1]) >>

(***************************************************************************)
(* C3: a response with status 200 whose body is a JSON document is         *)
(* followed by the output of the value that document denotes, printed by   *)
(* line 13, whichever URL it came from; until then the program is about to *)
(* print it.                                                               *)
(***************************************************************************)
C3_Ok200PrintsDecodedBody ==
    \A p \in 1..Len(log) : \A d \in JsonDocs :
       (IsResponse(log[p]) /\ log[p].status = 200 /\ log[p].body = d.text) =>
          IF p = Len(log)
          THEN pc = "check"
          ELSE log[p + 1] = PrintEvent(13, d.value)

C3_Witness ==
    /\ Len(log) = 6
    /\ log[2] = ResponseEvent([status |-> 200, body |-> BodyX1])
    /\ log[5] = ResponseEvent([status |-> 200, body |-> BodyRank5])
    /\ log[6].arg = JDict([rank |-> JInt(5)])

(***************************************************************************)
(* C4: a response with any status other than 200 (201 included) is         *)
(* followed by the failure message for the URL just requested and the      *)
(* status just received, printed by line 15; the body is not decoded, so   *)
(* the program does not abort on it whatever the body is.                  *)
(***************************************************************************)
C4_Non200PrintsFailureUnparsed ==
    \A p \in 1..Len(log) :
       (IsResponse(log[p]) /\ log[p].status # 200) =>
          /\ IsGet(log[p - 1])
          /\ log[p - 1].url = URLS[GetsBefore(log, p)]
          /\ IF p = Len(log)
             THEN pc = "check"
             ELSE log[p + 1] =
                    PrintEvent(15, ExpectedFailure(log[p - 1].url, log[p].status))

C4_Witness ==
    /\ Len(log) >= 6
    /\ log[2] = ResponseEvent([status |-> 201, body |-> BodyX1])
    /\ log[5] = ResponseEvent([status |-> 500, body |-> BodyHtml])
    /\ log[6].arg.v =
         "Failed to retrieve data from https://f0rest-rank-api.glitch.me/getRank/f0rest. Status code: 500"

(***************************************************************************)
(* C5: the step that handles a response with a status other than 200      *)
(* prints and goes on to the next URL, or to the sleep after the last one; *)
(* and whatever the status, the program is left where a 200 leaves it.     *)
(***************************************************************************)
C5_Non200DoesNotInterrupt ==
    [][ /\ (pc = "check" /\ response.status # 200) => pc' \in { "check", "get", "sleep" }
        /\ (pc = "check" /\ pc' \notin { "check", "aborted" }) =>
              /\ << pc', i' >> = IF i < Len(URLS) THEN << "get", i + 1 >>
                                 ELSE << "sleep", i >>
              /\ UNCHANGED << urls, inflight, sleepFor, elapsed, sleeps, reqs >>
      ]_vars

C5_Witness ==
    /\ prevLog # << >>
    /\ prevLog[3].line = 15
    /\ prevLog[6].line = 15
    /\ Len(log) = 4
    /\ log[3].line = 15
    /\ log[4] = GetEvent(URLS[2])

(***************************************************************************)
(* C6: the program never exits on its own: whatever the requests answer,   *)
(* it is fetching or sleeping.                                             *)
(***************************************************************************)
C6_NeverExits == pc \in { "get", "wait", "check", "sleep", "sleeping" }

(***************************************************************************)
(* C7: unless a request raises or a 200 response carries a body that is    *)
(* not JSON, every URL of the list is requested again and again for ever.  *)
(***************************************************************************)
RequestRaised == pc = "aborted" /\ IsGet(Last(log))

BadJsonOn200 ==
    /\ pc = "aborted"
    /\ IsResponse(Last(log))
    /\ Last(log).status = 200
    /\ \A d \in JsonDocs : d.text # Last(log).body

C7_EveryUrlRequestedForever ==
    \/ <>(RequestRaised \/ BadJsonOn200)
    \/ \A k \in 1..Len(URLS) :
         []<>(pc = "wait" /\ i = k /\ Last(log) = GetEvent(URLS[k]))

C7_Witness == pc = "wait" /\ i = 1 /\ cycles >= 2 /\ sleeps >= 2

(***************************************************************************)
(* C8: a completed cycle holds one GET for each URL of the list and one    *)
(* output for each, no more and no fewer; a cycle under way holds no URL   *)
(* twice.                                                                  *)
(***************************************************************************)
GetsTo(l, u) == Len(SelectSeq(l, LAMBDA e : IsGet(e) /\ e.url = u))

OnePerUrl(l) ==
    /\ \A k \in 1..Len(URLS) : GetsTo(l, URLS[k]) = 1
    /\ Len(SelectSeq(l, IsGet)) = Len(URLS)
    /\ Len(SelectSeq(l, IsPrint)) = Len(URLS)

C8_OneRequestOneOutputPerUrl ==
    /\ pc \in { "sleep", "sleeping" } => OnePerUrl(log)
    /\ prevLog # << >> => OnePerUrl(prevLog)
    /\ \A k \in 1..Len(URLS) : GetsTo(log, URLS[k]) <= 1
    /\ Len(SelectSeq(log, IsPrint)) <= Len(SelectSeq(log, IsGet))

C8_Witness ==
    /\ pc = "sleeping"
    /\ log[2].status = 500
    /\ log[3].line = 15
    /\ log[5].status = 200
    /\ prevLog # << >>

(***************************************************************************)
(* C9: at most one GET is outstanding, and only while the program is in    *)
(* requests.get; a GET goes out only when every earlier GET of the cycle   *)
(* has been answered and its output printed.                               *)
(***************************************************************************)
C9_OneRequestAtATime ==
    /\ inflight \in { 0, 1 }
    /\ inflight = 1 <=> pc = "wait"
    /\ pc = "get" => (log = << >> \/ IsPrint(Last(log)))
    /\ pc = "wait" =>
          /\ IsGet(Last(log))
          /\ PrintsBefore(log, Len(log)) = GetsBefore(log, Len(log))

C9_Witness == pc = "wait" /\ inflight = 1 /\ i = 2 /\ IsPrint(log[3])

(***************************************************************************)
(* C10: the list of URLs never changes, and a cycle whose responses are    *)
(* those of an earlier cycle is that cycle over again, event for event:    *)
(* the same requests, the same outputs, the same sleep.                    *)
(***************************************************************************)
C10_NoStateAcrossCycles ==
    /\ urls = URLS
    /\ prevLog # << >> =>
          /\ Len(log) <= Len(prevLog)
          /\ (\A p \in 1..Len(log) : IsResponse(log[p]) => log[p] = prevLog[p])
                => log = SubSeq(prevLog, 1, Len(log))

C10_Witness ==
    /\ pc = "sleeping"
    /\ prevLog = log
    /\ sleeps >= 2
    /\ log[2] = ResponseEvent([status |-> 200, body |-> BodyX1])
    /\ log[3] = PrintEvent(13, JDict([x |-> JInt(1)]))
    /\ log[5].status = 500
    /\ log[6].line = 15
    /\ log[7] = SleepEvent(240)

(***************************************************************************)
(* C11: a GET that raises, or a 200 response whose body is not a JSON      *)
(* document, ends the process on the spot: nothing is printed for that     *)
(* URL, and from then on nothing happens at all, no request to any URL and *)
(* no sleep.                                                               *)
(***************************************************************************)
NotJson(body) == \A d \in JsonDocs : d.text # body

C11_UncaughtErrorEndsEverything ==
    [][ /\ (pc = "wait" /\ pc' # "check") => (pc' = "aborted" /\ log' = log)
        /\ (pc = "check" /\ response.status = 200 /\ NotJson(response.body)) =>
              (pc' = "aborted" /\ log' = log)
        /\ (pc' = "aborted") =>
              /\ log' # << >>
              /\ ~IsPrint(Last(log')) /\ ~IsSleep(Last(log'))
              /\ inflight' = 0
              /\ reqs' = reqs /\ sleeps' = sleeps /\ cycles' = cycles
        /\ (pc = "aborted") => FALSE
      ]_vars

C11_Witness ==
    /\ pc = "aborted"
    /\ i = 1
    /\ reqs[2] = 1
    /\ sleeps >= 1
    /\ Last(log) = ResponseEvent([status |-> 200, body |-> BodyTruncated])

(***************************************************************************)
(* C12: the poller is always in one of two control states, Fetching and    *)
(* Sleeping; it goes from Fetching to Sleeping only when every URL of the  *)
(* list has been processed in the cycle, and from Sleeping to Fetching     *)
(* only when the interval has elapsed, and then at the first URL.          *)
(***************************************************************************)
Fetching == pc \in { "get", "wait", "check" }
Sleeping == pc \in { "sleep", "sleeping" }

C12_TwoStatesAndTheirTransitions ==
    [][ /\ Fetching' \/ Sleeping'
        /\ (Fetching /\ Sleeping') =>
              /\ i = Len(URLS)
              /\ Len(SelectSeq(log', IsPrint)) = Len(URLS)
        /\ (Sleeping /\ Fetching') =>
              (elapsed >= 240 /\ pc' = "get" /\ i' = 1)
      ]_vars

(***************************************************************************)
(* C13: the sleep after a cycle is always there and always 240 seconds,    *)
(* however many of the responses of the cycle were not 200: once the last  *)
(* URL is processed the sleep can start, and every sleep begun, running or *)
(* finished is one time.sleep(240) that is not cut short.                  *)
(***************************************************************************)
Failures(l) ==
    Len(SelectSeq(l, LAMBDA e : IsPrint(e) /\ e.line = 15))

C13_SleepUnconditionalAndConstant ==
    /\ pc = "sleep" => ENABLED StartSleep
    /\ pc = "sleeping" =>
          /\ sleepFor = 240
          /\ Last(log) = SleepEvent(240)
          /\ elapsed < 240 + TickSeconds
          /\ elapsed < 240 => ~ENABLED WakeUp
    /\ pc # "sleeping" => sleepFor = 0
    /\ \A l \in { log, prevLog } : \A p \in 1..Len(l) :
          IsSleep(l[p]) => (l[p].secs = 240 /\ p = Len(l))
    /\ prevLog # << >> => Last(prevLog) = SleepEvent(240)

\* A sleep running after a cycle in which every response failed, an earlier
\* cycle in which none did having had the same sleep.
C13_Witness ==
    /\ pc = "sleeping"
    /\ Failures(log) = 2
    /\ sleepFor = 240
    /\ prevLog # << >>
    /\ Failures(prevLog) = 0
    /\ Last(prevLog) = SleepEvent(240)

(***************************************************************************)
(* C14, as claimed: the first thing the program does is the GET to the     *)
(* first URL, no sleep before it, and at every point as many sleeps are    *)
(* completed as cycles are.                                                *)
(***************************************************************************)
FirstActionIsFirstGet ==
    /\ reqs[1] = 0 => (pc = "get" /\ i = 1 /\ log = << >> /\ sleeps = 0)
    /\ (sleeps = 0 /\ log # << >>) => log[1] = GetEvent(URLS[1])

C14_SleepsEqualCyclesAlways ==
    /\ FirstActionIsFirstGet
    /\ sleeps = cycles

(***************************************************************************)
(* C14, amended: the first thing the program does is the GET to the first  *)
(* URL, no sleep before it; as many sleeps are completed as cycles are     *)
(* whenever a cycle is under way (or was cut off), and one sleep fewer     *)
(* from the end of a cycle to the end of the sleep that follows it.  The   *)
(* counters stop at MaxCount, where they stay equal.                       *)
(***************************************************************************)
C14_SleepsFollowCycles ==
    /\ FirstActionIsFirstGet
    /\ pc \in { "get", "wait", "check", "aborted" } => sleeps = cycles
    /\ pc \in { "sleep", "sleeping" } =>
          \/ cycles = sleeps + 1
          \/ cycles = MaxCount /\ sleeps = MaxCount

C14_Witness ==
    /\ pc = "wait"
    /\ i = 1
    /\ sleeps = 1
    /\ cycles = 1
    /\ log = << GetEvent(URLS[1]) >>

(***************************************************************************)
(* C15: while the process has not aborted, the numbers of requests issued  *)
(* so far to any two URLs differ by at most one, and a URL earlier in the  *)
(* list has never been requested fewer times than a later one.             *)
(***************************************************************************)
C15_RoundRobin ==
    pc # "aborted" =>
       \A j, k \in 1..Len(URLS) :
          /\ reqs[j] - reqs[k] \in { -1, 0, 1 }
          /\ j < k => reqs[j] >= reqs[k]

C15_Witness ==
    /\ pc = "wait"
    /\ i = 1
    /\ reqs[1] = 2
    /\ reqs[2] = 1

====
